---- MODULE Spec2Model ----
(***************************************************************************)
(* Model of wily/state.py: the Index of the wily cache (an OrderedDict of  *)
(* revisions per archiver, hydrated from the cache at construction and     *)
(* written back by save) and the process State that owns one Index per     *)
(* archiver.  The cache store (wily.cache) and resolve_archiver are        *)
(* collaborators outside state.py and are modelled from their contract.    *)
(***************************************************************************)
EXTENDS Integers, Sequences, FiniteSets, TLC

VARIABLES
    cacheExists,   \* cache.exists(config): the backing location exists
    createCalls,   \* number of cache.create(config) calls made so far
    hasIdx,        \* archiver name -> cache.has_index(config, name)
    persisted,     \* archiver name -> list that cache.get_index returns
    savedFrom,     \* archiver name -> _revisions handed to the last save
    index,         \* process -> the Index object it holds (or NoIndex)
    addLog,        \* process -> keys passed to add since construction
    state,         \* the State object of the process (or NoState)
    ensureRan,     \* State.ensure_exists has run
    listed,        \* the list cache.list_archivers(config) returns
    cacheOps,      \* cache calls made on behalf of an Index, with context
    unreadable,    \* archiver names whose cache.get_index fails (CacheIOError)
    held,          \* what the revisions / revision_keys properties last returned
    last           \* the last call made: operation, caller, argument, result
                   \* (for save also the list it replaced)

vars == <<cacheExists, createCalls, hasIdx, persisted, savedFrom, index,
          addLog, state, ensureRan, listed, cacheOps, unreadable, held, last>>

(***************************************************************************)
(* Bounds of the model.                                                    *)
(***************************************************************************)
MaxPersisted == 2    \* length of a list persisted before the process starts
MaxLoad == 3         \* length of a persisted list in the load-only specification
MaxCreate == 2       \* cap on the createCalls counter

Procs == {"p1", "p2"}
ArchiverNames == <<"git", "svn">>
Archivers == {ArchiverNames[i] : i \in DOMAIN ArchiverNames}
Keys == {"abc123", "def456"}
Variants == {1, 2}
OperatorSets == {{}, {"raw"}, {"cyclomatic"}}

(***************************************************************************)
(* wily.archivers.Revision, as constructed at state.py:39.                 *)
(***************************************************************************)
Revision(key, author_name, author_email, date, message) ==
    [key |-> key, author_name |-> author_name, author_email |-> author_email,
     date |-> date, message |-> message]

MkRevision(k, v) ==
    Revision(k, "name" \o ToString(v), "mail" \o ToString(v),
             "date" \o ToString(v), "msg" \o ToString(v))

Revisions == {MkRevision(k, v) : k \in Keys, v \in Variants}

\* dataclasses.asdict(revision): a dict keyed by the dataclass field names
asdict(i) ==
    [key |-> i.key, author_name |-> i.author_name,
     author_email |-> i.author_email, date |-> i.date, message |-> i.message]

\* an entry of the persisted index as the cache contract describes it
CacheEntry(r, ops) ==
    [revision |-> r.key, author_name |-> r.author_name,
     author_email |-> r.author_email, date |-> r.date,
     message |-> r.message, operators |-> ops]

CacheEntries ==
    {CacheEntry(MkRevision(k, v), ops) : k \in Keys, v \in Variants, ops \in OperatorSets}

RECURSIVE SeqsUpTo(_, _)
SeqsUpTo(S, n) ==
    IF n = 0 THEN {<<>>}
    ELSE LET shorter == SeqsUpTo(S, n - 1) IN
         shorter \cup {Append(s, e) : s \in {t \in shorter : Len(t) = n - 1}, e \in S}

(***************************************************************************)
(* collections.OrderedDict: a sequence of (key, value) pairs, unique keys, *)
(* iteration in insertion order.                                           *)
(***************************************************************************)
OrderedDict == <<>>

OdHas(od, k) == \E i \in DOMAIN od : od[i].k = k

OdKeys(od) == [i \in DOMAIN od |-> od[i].k]

OdValues(od) == [i \in DOMAIN od |-> od[i].v]

OdGet(od, k) == od[CHOOSE i \in DOMAIN od : od[i].k = k].v

\* od[k] = v as a delete followed by an insert: an existing key moves last
OdSetMoveToEnd(od, k, v) ==
    Append(SelectSeq(od, LAMBDA e : e.k # k), [k |-> k, v |-> v])

\* od[k] = v with a new key inserted in front
OdSetPrepend(od, k, v) ==
    IF OdHas(od, k)
    THEN [i \in DOMAIN od |-> IF od[i].k = k THEN [k |-> k, v |-> v] ELSE od[i]]
    ELSE <<[k |-> k, v |-> v]>> \o od

\* od.setdefault(k, v): an existing key keeps its old value
OdSetKeepFirst(od, k, v) ==
    IF OdHas(od, k) THEN od ELSE Append(od, [k |-> k, v |-> v])

\* od[k] = v as a plain append, whether or not the key is there
OdSetAppendAlways(od, k, v) == Append(od, [k |-> k, v |-> v])

\* od[k] = v: an existing key keeps its position, a new key goes last
OdSet(od, k, v) ==
    IF OdHas(od, k)
    THEN [i \in DOMAIN od |-> IF od[i].k = k THEN [k |-> k, v |-> v] ELSE od[i]]
    ELSE Append(od, [k |-> k, v |-> v])

(***************************************************************************)
(* Results of calls: a returned value or a raised exception.               *)
(***************************************************************************)
Return(v) == [exc |-> "None", val |-> <<v>>]
Raise(e) == [exc |-> e, val |-> <<>>]

\* Python None for Index.operators; a set value s is held as <<s>>
None == <<>>
\* Python truthiness of `not self.operators`: None and empty are falsy
Falsy(o) == o = None \/ o[1] = {}

(***************************************************************************)
(* class Index                                                             *)
(***************************************************************************)
NoIndex == [none |-> TRUE]
IsIndex(x) == "archiver" \in DOMAIN x

\* add filling in operators when none is set yet
addTagsOperators(self, revision) ==
    [self EXCEPT !._revisions = OdSet(@, revision.key, revision),
                 !.operators = IF @ = <<>> THEN <<{"raw"}>> ELSE @]

add(self, revision) ==
    [self EXCEPT !._revisions = OdSet(@, revision.key, revision)]

len(self) == Len(self._revisions)

revisions(self) == OdValues(self._revisions)

revision_keys(self) == OdKeys(self._revisions)

\* __contains__ looking a revision up among the values, not by its key
containsByRecord(self, item) ==
    IF item.type = "Revision"
    THEN Return(\E i \in DOMAIN self._revisions : self._revisions[i].v = item.rev)
    ELSE IF item.type = "str" THEN Return(OdHas(self._revisions, item.key))
    ELSE Raise("TypeError")

contains(self, item) ==
    IF item.type = "Revision" THEN Return(OdHas(self._revisions, item.rev.key))
    ELSE IF item.type = "str" THEN Return(OdHas(self._revisions, item.key))
    ELSE Raise("TypeError")

\* __getitem__ written as a lookup with a default, self._revisions.get(index)
getitemDefault(self, k) ==
    IF OdHas(self._revisions, k) THEN Return(OdGet(self._revisions, k))
    ELSE Return([none |-> TRUE])

getitem(self, k) ==
    IF OdHas(self._revisions, k) THEN Return(OdGet(self._revisions, k))
    ELSE Raise("KeyError")

\* save() as an incremental append to the list that was loaded
SaveDataAppend(self) ==
    self.data \o [i \in DOMAIN self._revisions |-> asdict(OdValues(self._revisions)[i])]

\* save() keeping the persisted entries whose key is not in memory
SaveDataMerge(self) ==
    SelectSeq(persisted[self.archiver],
              LAMBDA d : "key" \in DOMAIN d /\ ~OdHas(self._revisions, d.key))
    \o [i \in DOMAIN self._revisions |-> asdict(OdValues(self._revisions)[i])]

\* the list save() hands to cache.store_index
SaveData(self) == [i \in DOMAIN self._revisions |-> asdict(revisions(self)[i])]

\* d[f] raises KeyError unless f is a key of d
HasFields(d, fs) == fs \subseteq DOMAIN d

\* the `for d in self.data` loop of __init__, from entry i on
RECURSIVE LoadLoop(_, _)
LoadLoop(self, i) ==
    IF i > Len(self.data) THEN [exc |-> "None", self |-> self]
    ELSE LET d == self.data[i] IN
         IF Falsy(self.operators) /\ ~HasFields(d, {"operators"})
         THEN [exc |-> "KeyError", self |-> self]
         ELSE LET s1 == IF Falsy(self.operators)
                        THEN [self EXCEPT !.operators = <<d.operators>>]
                        ELSE self
              IN IF ~HasFields(d, {"revision", "author_name", "author_email",
                                   "date", "message"})
                 THEN [exc |-> "KeyError", self |-> s1]
                 ELSE LoadLoop(add(s1, Revision(d.revision, d.author_name,
                                                d.author_email, d.date,
                                                d.message)), i + 1)

\* cache.get_index if cache.has_index else []
LoadData(archiver) == IF hasIdx[archiver] THEN persisted[archiver] ELSE <<>>

\* a failed cache.get_index propagates out of __init__
IndexInit(archiver) ==
    IF hasIdx[archiver] /\ archiver \in unreadable
    THEN [exc |-> "CacheIOError", self |-> NoIndex]
    ELSE LoadLoop([archiver |-> archiver, data |-> LoadData(archiver),
                   operators |-> None, _revisions |-> OrderedDict], 1)

(***************************************************************************)
(* The cache store.                                                        *)
(***************************************************************************)
\* cache.store_index(config, archiver, data): total overwrite
StoreIndex(archiver, data) ==
    /\ persisted' = [persisted EXCEPT ![archiver] = data]
    /\ hasIdx' = [hasIdx EXCEPT ![archiver] = TRUE]

NoSave == [saved |-> FALSE]

(***************************************************************************)
(* Initial states: a cache that does not exist holds nothing; one that     *)
(* exists holds, per archiver, no index or a list of cache entries.        *)
(***************************************************************************)
NoDup(s) == \A i, j \in DOMAIN s : i # j => s[i] # s[j]

\* lists a previous run left behind: distinct revisions, one operator set
BuiltEntries == {CacheEntry(MkRevision(k, 1), {"raw"}) : k \in Keys}
BuiltLists == {s \in SeqsUpTo(BuiltEntries, MaxPersisted) : NoDup(s)}

\* every list of cache entries, repeated keys and mixed operator sets included
AnyLists == SeqsUpTo(CacheEntries, MaxLoad)

NoState == [none |-> TRUE]

\* nothing returned yet by revisions or revision_keys
NoneHeld == [revisions |-> [kind |-> "none"], revision_keys |-> [kind |-> "none"]]

InitCommon ==
    /\ createCalls = 0
    /\ savedFrom = [a \in Archivers |-> NoSave]
    /\ index = [p \in Procs |-> NoIndex]
    /\ addLog = [p \in Procs |-> [keys |-> <<>>, distinct |-> TRUE]]
    /\ state = NoState
    /\ ensureRan = FALSE
    /\ cacheOps = {}
    /\ held = NoneHeld
    /\ last = [op |-> "start"]

InitStore(lists) ==
    /\ cacheExists \in BOOLEAN
    /\ hasIdx \in [Archivers -> BOOLEAN]
    /\ persisted \in [Archivers -> lists]
    /\ \A a \in Archivers : ~hasIdx[a] => persisted[a] = <<>>
    /\ ~cacheExists => \A a \in Archivers : ~hasIdx[a]

\* the archivers that have an index, in the cache's order
WithIndex == SelectSeq(ArchiverNames, LAMBDA a : hasIdx[a])

Init == InitCommon /\ InitStore(BuiltLists) /\ listed = WithIndex /\ unreadable = {}

(***************************************************************************)
(* Operations on an Index held by process p.                               *)
(***************************************************************************)
StateVarsUnchanged ==
    UNCHANGED <<cacheExists, createCalls, state, ensureRan, listed, cacheOps,
                unreadable>>

\* index = Index(config, archiver)
NewIndex(p, a) ==
    LET r == IndexInit(a) IN
    /\ index' = [index EXCEPT ![p] = IF r.exc = "None" THEN r.self ELSE @]
    /\ addLog' = [addLog EXCEPT ![p] = IF r.exc = "None"
                                       THEN [keys |-> <<>>, distinct |-> TRUE]
                                       ELSE @]
    /\ last' = [op |-> "init", proc |-> p, arg |-> a, exc |-> r.exc]
    /\ UNCHANGED <<hasIdx, persisted, savedFrom, held>>
    /\ StateVarsUnchanged

\* add that also writes the index through to the cache
AddWriteThrough(p, revision) ==
    /\ IsIndex(index[p])
    /\ index' = [index EXCEPT ![p] = add(@, revision)]
    /\ addLog' = [addLog EXCEPT ![p] =
                    IF @.distinct /\ \A i \in DOMAIN @.keys : @.keys[i] # revision.key
                    THEN [keys |-> Append(@.keys, revision.key), distinct |-> TRUE]
                    ELSE [keys |-> <<>>, distinct |-> FALSE]]
    /\ last' = [op |-> "add", proc |-> p, arg |-> revision, exc |-> "None"]
    /\ persisted' = [persisted EXCEPT ![index[p].archiver] =
                        [i \in DOMAIN index'[p]._revisions |->
                            asdict(OdValues(index'[p]._revisions)[i])]]
    /\ hasIdx' = [hasIdx EXCEPT ![index[p].archiver] = TRUE]
    /\ UNCHANGED <<savedFrom, held>>
    /\ StateVarsUnchanged

\* add that first refreshes the mapping from the cache
AddReloads(p, revision) ==
    /\ IsIndex(index[p])
    /\ LET r == IndexInit(index[p].archiver)
           self == IF r.exc = "None" THEN r.self ELSE index[p]
       IN index' = [index EXCEPT ![p] = add(self, revision)]
    /\ addLog' = [addLog EXCEPT ![p] =
                    IF @.distinct /\ \A i \in DOMAIN @.keys : @.keys[i] # revision.key
                    THEN [keys |-> Append(@.keys, revision.key), distinct |-> TRUE]
                    ELSE [keys |-> <<>>, distinct |-> FALSE]]
    /\ last' = [op |-> "add", proc |-> p, arg |-> revision, exc |-> "None"]
    /\ UNCHANGED <<hasIdx, persisted, savedFrom, held>>
    /\ StateVarsUnchanged

\* index.add(revision)
Add(p, revision) ==
    /\ IsIndex(index[p])
    /\ index' = [index EXCEPT ![p] = add(@, revision)]
    /\ addLog' = [addLog EXCEPT ![p] =
                    IF @.distinct /\ \A i \in DOMAIN @.keys : @.keys[i] # revision.key
                    THEN [keys |-> Append(@.keys, revision.key), distinct |-> TRUE]
                    ELSE [keys |-> <<>>, distinct |-> FALSE]]
    /\ last' = [op |-> "add", proc |-> p, arg |-> revision, exc |-> "None"]
    /\ UNCHANGED <<hasIdx, persisted, savedFrom, held>>
    /\ StateVarsUnchanged

\* index.save()
Save(p) ==
    /\ IsIndex(index[p])
    /\ StoreIndex(index[p].archiver, SaveData(index[p]))
    /\ savedFrom' = [savedFrom EXCEPT ![index[p].archiver] =
                        [saved |-> TRUE, snap |-> index[p]._revisions]]
    /\ last' = [op |-> "save", proc |-> p, arg |-> index[p].archiver, exc |-> "None",
                prior |-> persisted[index[p].archiver]]
    /\ UNCHANGED <<index, addLog, held>>
    /\ StateVarsUnchanged

Items ==
    {[type |-> "str", key |-> k] : k \in Keys}
    \cup {[type |-> "Revision", rev |-> r] : r \in Revisions}
    \cup {[type |-> "int"], [type |-> "NoneType"]}

\* item in index
Contains(p, item) ==
    /\ IsIndex(index[p])
    /\ LET r == contains(index[p], item) IN
       last' = [op |-> "contains", proc |-> p, arg |-> item, exc |-> r.exc, val |-> r.val]
    /\ UNCHANGED <<hasIdx, persisted, savedFrom, index, addLog, held>>
    /\ StateVarsUnchanged

\* index[key]
Get(p, k) ==
    /\ IsIndex(index[p])
    /\ LET r == getitem(index[p], k) IN
       last' = [op |-> "getitem", proc |-> p, arg |-> k, exc |-> r.exc, val |-> r.val]
    /\ UNCHANGED <<hasIdx, persisted, savedFrom, index, addLog, held>>
    /\ StateVarsUnchanged

\* the revisions property handing out the live values view of the mapping
ReturnedRevisionsView(p) == [kind |-> "view", proc |-> p, attr |-> "values"]

\* index.revisions: list(self._revisions.values()), a new list
ReturnedRevisions(p) == [kind |-> "list", v |-> revisions(index[p])]

\* index.revision_keys: list(self._revisions.keys()), a new list
ReturnedRevisionKeys(p) == [kind |-> "list", v |-> revision_keys(index[p])]

\* what a caller reads from a returned sequence now
Contents(h) ==
    IF h.kind = "list" THEN h.v
    ELSE IF h.kind = "view"
         THEN IF h.attr = "values" THEN OdValues(index[h.proc]._revisions)
              ELSE OdKeys(index[h.proc]._revisions)
         ELSE <<>>

\* held = index.revisions
GetRevisions(p) ==
    /\ IsIndex(index[p])
    /\ held' = [held EXCEPT !.revisions = ReturnedRevisions(p)]
    /\ last' = [op |-> "revisions", proc |-> p, exc |-> "None"]
    /\ UNCHANGED <<hasIdx, persisted, savedFrom, index, addLog>>
    /\ StateVarsUnchanged

\* held = index.revision_keys
GetRevisionKeys(p) ==
    /\ IsIndex(index[p])
    /\ held' = [held EXCEPT !.revision_keys = ReturnedRevisionKeys(p)]
    /\ last' = [op |-> "revision_keys", proc |-> p, exc |-> "None"]
    /\ UNCHANGED <<hasIdx, persisted, savedFrom, index, addLog>>
    /\ StateVarsUnchanged

Main == "p1"

Next ==
    \/ \E a \in Archivers : NewIndex(Main, a)
    \/ \E r \in Revisions : Add(Main, r)
    \/ Save(Main)
    \/ \E item \in Items : Contains(Main, item)
    \/ \E k \in Keys : Get(Main, k)

\* one process, one Index at a time
Spec == Init /\ [][Next]_vars

(***************************************************************************)
(* A caller keeping the sequences the properties returned across adds.     *)
(***************************************************************************)
NextView ==
    \/ \E a \in Archivers : NewIndex(Main, a)
    \/ \E r \in Revisions : Add(Main, r)
    \/ GetRevisions(Main)
    \/ GetRevisionKeys(Main)

SpecView == Init /\ [][NextView]_vars

(***************************************************************************)
(* Load only: any persisted list for one archiver, then construction.      *)
(***************************************************************************)
InitLoad ==
    /\ InitCommon
    /\ cacheExists = TRUE
    /\ hasIdx = [a \in Archivers |-> a = "git"]
    /\ persisted \in [Archivers -> AnyLists]
    /\ persisted["svn"] = <<>>
    /\ listed = WithIndex
    /\ unreadable = {}

NextLoad == \E a \in Archivers : NewIndex(Main, a)

SpecLoad == InitLoad /\ [][NextLoad]_vars

(***************************************************************************)
(* Two processes sharing the cache store, no locking between them.         *)
(***************************************************************************)
NextConc ==
    \/ \E p \in Procs : NewIndex(p, "git")
    \/ \E p \in Procs, r \in Revisions : Add(p, r)
    \/ \E p \in Procs : Save(p)

InitConc == Init /\ ~hasIdx["svn"]

SpecConc == InitConc /\ [][NextConc]_vars

(***************************************************************************)
(* class State                                                             *)
(***************************************************************************)
\* wily.archivers.resolve_archiver(name): fails if the name is unknown
resolve_archiver(name) ==
    IF name \in Archivers THEN Return([name |-> name])
    ELSE Raise("ArchiverResolutionError")

\* cache.list_archivers(config)
list_archivers == listed

\* the cache calls Index.__init__ makes for an archiver name
InitCacheOps(name) ==
    {[op |-> "has_index", exists |-> cacheExists, ensured |-> ensureRan]}
    \cup IF hasIdx[name]
         THEN {[op |-> "get_index", exists |-> cacheExists, ensured |-> ensureRan]}
         ELSE {}

\* the loop of State.__init__ catching the error of an archiver and going on
RECURSIVE StateLoopSkip(_, _, _)
StateLoopSkip(self, i, ops) ==
    IF i > Len(self.archivers) THEN [exc |-> "None", self |-> self, ops |-> ops]
    ELSE LET name == self.archivers[i]
             a == resolve_archiver(name)
         IN IF a.exc # "None" THEN StateLoopSkip(self, i + 1, ops)
            ELSE LET r == IndexInit(a.val[1].name)
                     ops1 == ops \cup InitCacheOps(a.val[1].name)
                 IN IF r.exc # "None" THEN StateLoopSkip(self, i + 1, ops1)
                    ELSE StateLoopSkip([self EXCEPT !.index =
                                           [n \in DOMAIN @ \cup {name} |->
                                               IF n = name THEN r.self ELSE @[n]]],
                                       i + 1, ops1)

\* the `for archiver in self.archivers` loop of State.__init__, from name i on
RECURSIVE StateLoop(_, _, _)
StateLoop(self, i, ops) ==
    IF i > Len(self.archivers) THEN [exc |-> "None", self |-> self, ops |-> ops]
    ELSE LET name == self.archivers[i]
             a == resolve_archiver(name)
         IN IF a.exc # "None" THEN [exc |-> a.exc, self |-> self, ops |-> ops]
            ELSE LET r == IndexInit(a.val[1].name)
                     ops1 == ops \cup InitCacheOps(a.val[1].name)
                 IN IF r.exc # "None" THEN [exc |-> r.exc, self |-> self, ops |-> ops1]
                    ELSE StateLoop([self EXCEPT !.index =
                                       [n \in DOMAIN @ \cup {name} |->
                                           IF n = name THEN r.self ELSE @[n]]],
                                   i + 1, ops1)

\* State(config, archiver): archiver is <<>> (None) or <<an archiver object>>
\* State.__init__ taking the last archiver in scope as the default
StateInitDefaultLast(archiver) ==
    LET archivers == IF archiver # <<>> THEN <<archiver[1].name>> ELSE list_archivers
        r == StateLoop([archivers |-> archivers, index |-> <<>>], 1, {})
    IN IF r.exc # "None" THEN r
       ELSE IF Len(archivers) = 0 THEN [exc |-> "IndexError", self |-> r.self, ops |-> r.ops]
       ELSE [exc |-> "None", ops |-> r.ops,
             self |-> [archivers |-> archivers, index |-> r.self.index,
                       default_archiver |-> archivers[Len(archivers)]]]

\* State.__init__ leaving default_archiver unset when no archiver is in scope
StateInitEmptyOk(archiver) ==
    LET archivers == IF archiver # <<>> THEN <<archiver[1].name>> ELSE list_archivers
        r == StateLoop([archivers |-> archivers, index |-> <<>>], 1, {})
    IN IF r.exc # "None" THEN r
       ELSE [exc |-> "None", ops |-> r.ops,
             self |-> [archivers |-> archivers, index |-> r.self.index,
                       default_archiver |-> IF Len(archivers) = 0 THEN "None"
                                            ELSE archivers[1]]]

StateInit(archiver) ==
    LET archivers == IF archiver # <<>> THEN <<archiver[1].name>> ELSE list_archivers
        r == StateLoop([archivers |-> archivers, index |-> <<>>], 1, {})
    IN IF r.exc # "None" THEN r
       ELSE IF Len(archivers) = 0 THEN [exc |-> "IndexError", self |-> r.self, ops |-> r.ops]
       ELSE [exc |-> "None", ops |-> r.ops,
             self |-> [archivers |-> archivers, index |-> r.self.index,
                       default_archiver |-> archivers[1]]]

\* the number of cache.list_archivers calls State.__init__ makes
ListCalls(archiver) == IF archiver # <<>> THEN 0 ELSE 1

IsState(x) == "archivers" \in DOMAIN x

IndexVarsUnchanged == UNCHANGED <<index, addLog, listed, unreadable, held>>

\* state = State(config, archiver)
NewState(archiver) ==
    LET r == StateInit(archiver) IN
    /\ state' = IF r.exc = "None" THEN r.self ELSE state
    /\ cacheOps' = cacheOps \cup r.ops
    /\ last' = [op |-> "State", arg |-> archiver, exc |-> r.exc,
                listCalls |-> ListCalls(archiver)]
    /\ UNCHANGED <<cacheExists, createCalls, hasIdx, persisted, savedFrom, ensureRan>>
    /\ IndexVarsUnchanged

\* ensure_exists with the test of cache.exists inverted
EnsureExistsInverted ==
    /\ IsState(state)
    /\ IF cacheExists
       THEN /\ createCalls < MaxCreate
            /\ createCalls' = createCalls + 1
            /\ cacheExists' = TRUE
       ELSE UNCHANGED <<createCalls, cacheExists>>
    /\ ensureRan' = TRUE
    /\ last' = [op |-> "ensure_exists", exc |-> "None", again |-> ensureRan]
    /\ UNCHANGED <<hasIdx, persisted, savedFrom, state, cacheOps>>
    /\ IndexVarsUnchanged

\* ensure_exists calling cache.create without testing cache.exists
EnsureExistsAlwaysCreates ==
    /\ IsState(state)
    /\ createCalls < MaxCreate
    /\ createCalls' = createCalls + 1
    /\ cacheExists' = TRUE
    /\ ensureRan' = TRUE
    /\ last' = [op |-> "ensure_exists", exc |-> "None", again |-> ensureRan]
    /\ UNCHANGED <<hasIdx, persisted, savedFrom, state, cacheOps>>
    /\ IndexVarsUnchanged

\* state.ensure_exists()
EnsureExists ==
    /\ IsState(state)
    /\ IF ~cacheExists
       THEN /\ createCalls < MaxCreate
            /\ createCalls' = createCalls + 1
            /\ cacheExists' = TRUE
       ELSE UNCHANGED <<createCalls, cacheExists>>
    /\ ensureRan' = TRUE
    /\ last' = [op |-> "ensure_exists", exc |-> "None", again |-> ensureRan]
    /\ UNCHANGED <<hasIdx, persisted, savedFrom, state, cacheOps>>
    /\ IndexVarsUnchanged

\* state.index[a].add(revision)
StateAdd(a, revision) ==
    /\ IsState(state)
    /\ a \in DOMAIN state.index
    /\ state' = [state EXCEPT !.index[a] = add(@, revision)]
    /\ last' = [op |-> "state_add", arg |-> revision, archiver |-> a, exc |-> "None"]
    /\ UNCHANGED <<cacheExists, createCalls, hasIdx, persisted, savedFrom,
                   ensureRan, cacheOps>>
    /\ IndexVarsUnchanged

\* state.index[a].save()
StateSave(a) ==
    /\ IsState(state)
    /\ a \in DOMAIN state.index
    /\ StoreIndex(a, SaveData(state.index[a]))
    /\ savedFrom' = [savedFrom EXCEPT ![a] =
                        [saved |-> TRUE, snap |-> state.index[a]._revisions]]
    /\ cacheOps' = cacheOps \cup
                    {[op |-> "store_index", exists |-> cacheExists, ensured |-> ensureRan]}
    /\ last' = [op |-> "state_save", arg |-> a, exc |-> "None"]
    /\ UNCHANGED <<cacheExists, createCalls, state, ensureRan>>
    /\ IndexVarsUnchanged

\* the archiver lists a cache may report; "hg" is unknown to resolve_archiver
Listings ==
    {<<>>, <<"git">>, <<"git", "svn">>, <<"svn", "git">>, <<"git", "hg">>, <<"hg", "git">>}

InList(a, l) == \E i \in DOMAIN l : l[i] = a

\* the State specification keeps the stores and the added revisions small
StateLists == {s \in BuiltLists : Len(s) <= 1}
StateRevisions == {MkRevision(k, 1) : k \in Keys}

InitState ==
    /\ InitCommon
    /\ InitStore(StateLists)
    /\ listed \in Listings
    /\ ~cacheExists => listed = <<>>
    /\ \A a \in Archivers : hasIdx[a] => InList(a, listed)
    /\ unreadable \in {{}, {"svn"}}

NextState ==
    \/ \E a \in {<<>>} \cup {<<[name |-> n]>> : n \in Archivers} : NewState(a)
    \/ EnsureExists
    \/ \E a \in Archivers, r \in StateRevisions : StateAdd(a, r)
    \/ \E a \in Archivers : StateSave(a)

SpecState == InitState /\ [][NextState]_vars

(***************************************************************************)
(* Properties.                                                             *)
(***************************************************************************)
Range(s) == {s[i] : i \in DOMAIN s}
FiveFields == {"key", "author_name", "author_email", "date", "message"}
ValueFields == {"author_name", "author_email", "date", "message"}

\* C1: round trip.  An Index constructed over a list that save() stored
\* (the cache returning exactly what store_index was given) is constructed
\* without error and has the revision keys, in order, and the field values
\* of the Index that was saved.
C1_RoundTrip ==
    (last.op = "init" /\ savedFrom[last.arg].saved)
        => /\ last.exc = "None"
           /\ revision_keys(index[last.proc]) = OdKeys(savedFrom[last.arg].snap)
           /\ \A k \in Range(OdKeys(savedFrom[last.arg].snap)) :
                 getitem(index[last.proc], k) = Return(OdGet(savedFrom[last.arg].snap, k))

\* C2: after construction over a non-empty persisted list, operators is the
\* operator set of the first persisted entry, whatever the later entries hold.
C2_OperatorsFromFirst ==
    (last.op = "init" /\ last.exc = "None" /\ Len(index[last.proc].data) > 0)
        => index[last.proc].operators = <<index[last.proc].data[1].operators>>

C4_ReAddKeepsPosition ==
    [][(last'.op = "add" /\ last'.proc = Main
        /\ OdHas(index[Main]._revisions, last'.arg.key))
           => /\ revision_keys(index'[Main]) = revision_keys(index[Main])
              /\ getitem(index'[Main], last'.arg.key) = Return(last'.arg)]_vars

C4_Witness ==
    /\ last.op = "add" /\ ~addLog[Main].distinct
    /\ len(index[Main]) = 2
    /\ revision_keys(index[Main])[1] = last.arg.key
    /\ last.arg.message = "msg2"
    /\ getitem(index[Main], last.arg.key) = Return(last.arg)

\* C5: on an Index that started empty, after adds with pairwise distinct
\* keys the length is the number of adds and revision_keys is the keys in
\* the order they were added.
C5_DistinctAddsInOrder ==
    \A p \in Procs :
        (IsIndex(index[p]) /\ index[p].data = <<>> /\ addLog[p].distinct)
            => /\ len(index[p]) = Len(addLog[p].keys)
               /\ revision_keys(index[p]) = addLog[p].keys

C5_Witness ==
    /\ IsIndex(index[Main]) /\ index[Main].data = <<>> /\ addLog[Main].distinct
    /\ Len(addLog[Main].keys) = 2
    /\ last.op = "add"

\* the elements of s in order, each kept at its first occurrence only
RECURSIVE FirstOccurrences(_)
FirstOccurrences(s) ==
    IF s = <<>> THEN <<>>
    ELSE LET front == FirstOccurrences(SubSeq(s, 1, Len(s) - 1))
             e == s[Len(s)]
         IN IF e \in Range(front) THEN front ELSE Append(front, e)

RevisionFields(data) == [i \in DOMAIN data |-> data[i].revision]

\* C6 as stated: right after construction revision_keys is the sequence of
\* the revision fields of the persisted list, entry for entry.
C6_KeysEqualPersisted ==
    (last.op = "init" /\ last.exc = "None")
        => revision_keys(index[last.proc]) = RevisionFields(index[last.proc].data)

\* C6 amended: right after construction revision_keys is the sequence of the
\* revision fields of the persisted list with every repeated occurrence of a
\* key after its first removed; it is the persisted sequence entry for entry
\* when the persisted revision fields are pairwise distinct.
C6_KeysAreFirstOccurrences ==
    (last.op = "init" /\ last.exc = "None")
        => LET self == index[last.proc] IN
           /\ revision_keys(self) = FirstOccurrences(RevisionFields(self.data))
           /\ NoDup(RevisionFields(self.data))
                 => revision_keys(self) = RevisionFields(self.data)

C6_Witness ==
    /\ last.op = "init" /\ last.exc = "None"
    /\ Len(index[last.proc].data) = 3
    /\ index[last.proc].data[1].revision = index[last.proc].data[3].revision
    /\ len(index[last.proc]) = 2

PersistedKeys(l) ==
    {l[i].key : i \in {j \in DOMAIN l : "key" \in DOMAIN l[j]}}
    \cup {l[i].revision : i \in {j \in DOMAIN l : "revision" \in DOMAIN l[j]}}

\* C7: save is a total overwrite.  The list stored for the archiver is one
\* five-field mapping per indexed revision, in mapping order, and nothing
\* else; no other archiver's list changes; a save that directly follows a
\* save of the same Index leaves the persisted list as it was.
C7_SaveOverwrites ==
    [][\A p \in Procs :
          (last'.op = "save" /\ last'.proc = p) =>
              LET self == index[p]
                  l == persisted'[self.archiver]
              IN /\ hasIdx'[self.archiver]
                 /\ Len(l) = len(self)
                 /\ \A i \in DOMAIN l :
                       /\ DOMAIN l[i] = FiveFields
                       /\ l[i].key = revision_keys(self)[i]
                       /\ \A f \in ValueFields :
                             l[i][f] = getitem(self, l[i].key).val[1][f]
                 /\ \A b \in Archivers \ {self.archiver} :
                       persisted'[b] = persisted[b] /\ hasIdx'[b] = hasIdx[b]
                 /\ (last.op = "save" /\ last.proc = p) => persisted' = persisted]_vars

\* a save of a non-empty Index that dropped a key of the list it replaced
C7_Witness ==
    /\ last.op = "save"
    /\ Len(persisted[last.arg]) >= 1
    /\ \E k \in PersistedKeys(last.prior) : k \notin PersistedKeys(persisted[last.arg])

\* C8: add changes memory only.  An add leaves the cache (every archiver's
\* persisted list and has_index, and the backing location) as it was, so an
\* Index constructed afresh is what it would have been before the add and
\* does not hold an added key that was never persisted.
C8_AddNotPersisted ==
    [][(last'.op = "add" /\ last'.proc = Main) =>
          /\ persisted' = persisted /\ hasIdx' = hasIdx
          /\ cacheExists' = cacheExists
          /\ \A a \in Archivers :
                /\ IndexInit(a)' = IndexInit(a)
                /\ (a = index[Main].archiver /\ IndexInit(a)'.exc = "None"
                    /\ last'.arg.key \notin PersistedKeys(persisted[a]))
                      => ~OdHas(IndexInit(a)'.self._revisions, last'.arg.key)]_vars

C8_Witness ==
    /\ last.op = "add"
    /\ hasIdx[index[Main].archiver]
    /\ Len(persisted[index[Main].archiver]) = 1
    /\ last.arg.key \notin PersistedKeys(persisted[index[Main].archiver])
    /\ IndexInit(index[Main].archiver).exc = "None"
    /\ len(IndexInit(index[Main].archiver).self) = 1
    /\ len(index[Main]) = 2

\* C9: two processes load the same persisted list for one archiver, add and
\* save.  After any save the persisted list is the snapshot of the process
\* that saved last; keys only the other process holds are absent from it,
\* and the save raised nothing.
C9_LastSaveWins ==
    \A p \in Procs, q \in Procs :
        (last.op = "save" /\ last.proc = p /\ q # p /\ IsIndex(index[q])
         /\ index[q].archiver = index[p].archiver /\ index[q].data = index[p].data)
            => LET l == persisted[index[p].archiver] IN
               /\ last.exc = "None"
               /\ [i \in DOMAIN l |-> l[i].key] = revision_keys(index[p])
               /\ \A i \in DOMAIN l : l[i] = asdict(getitem(index[p], l[i].key).val[1])
               /\ \A k \in Range(revision_keys(index[q])) \ Range(revision_keys(index[p])) :
                     k \notin PersistedKeys(l)

\* both saved, the later save dropped the key only the earlier saver holds
C9_Witness ==
    \E p \in Procs, q \in Procs :
        /\ last.op = "save" /\ last.proc = p /\ q # p /\ IsIndex(index[q])
        /\ index[q].archiver = index[p].archiver /\ index[q].data = index[p].data
        /\ \E k \in Range(revision_keys(index[q])) \ Range(revision_keys(index[p])) :
              /\ k \in PersistedKeys(last.prior)
              /\ k \notin PersistedKeys(persisted[last.arg])
        /\ Range(revision_keys(index[p])) \ Range(revision_keys(index[q])) # {}

\* C10: contains of a key string and contains of any revision with that key
\* return the same boolean, true exactly when the key is in revision_keys;
\* contains of any other type raises TypeError; contains never changes the
\* index.
C10_ContainsAgrees ==
    /\ [](IsIndex(index[Main]) =>
             /\ \A r \in Revisions :
                   /\ contains(index[Main], [type |-> "str", key |-> r.key])
                         = Return(r.key \in Range(revision_keys(index[Main])))
                   /\ contains(index[Main], [type |-> "Revision", rev |-> r])
                         = contains(index[Main], [type |-> "str", key |-> r.key])
             /\ \A item \in Items :
                   item.type \notin {"str", "Revision"}
                       => contains(index[Main], item) = Raise("TypeError"))
    /\ [][(last'.op = "contains" /\ last'.proc = Main) =>
             /\ index' = index /\ persisted' = persisted
             /\ last'.exc = contains(index[Main], last'.arg).exc
             /\ last'.val = contains(index[Main], last'.arg).val]_vars

\* contains of a revision found by key, the indexed record being another one
C10_Witness ==
    /\ last.op = "contains" /\ last.arg.type = "Revision" /\ last.val = <<TRUE>>
    /\ getitem(index[Main], last.arg.rev.key) # Return(last.arg.rev)

\* C11: getitem of an indexed key returns its record; getitem of any other
\* key raises KeyError and returns nothing; either way the mapping, its order
\* and the persisted store are as before.
C11_GetOrKeyError ==
    [][(last'.op = "getitem" /\ last'.proc = Main) =>
          LET self == index[Main]
              k == last'.arg
              at == {i \in DOMAIN self._revisions : revision_keys(self)[i] = k}
          IN /\ index' = index /\ persisted' = persisted /\ hasIdx' = hasIdx
             /\ at # {} => /\ last'.exc = "None"
                           /\ \E i \in at : last'.val = <<revisions(self)[i]>>
             /\ at = {} => /\ last'.exc = "KeyError"
                           /\ last'.val = <<>>]_vars

C11_Witness ==
    /\ last.op = "getitem" /\ last.exc = "KeyError"
    /\ len(index[Main]) = 1
    /\ last.arg \notin Range(revision_keys(index[Main]))

\* C12: after a successful State construction the index mapping has exactly
\* the names of archivers as keys, each bound to an Index for that name, and
\* default_archiver is the first name; with an explicit archiver the scope
\* is that archiver's name alone and list_archivers is not called, otherwise
\* the scope is the listed names in their order.
C12_OneIndexPerArchiver ==
    (last.op = "State" /\ last.exc = "None")
        => /\ DOMAIN state.index = Range(state.archivers)
           /\ \A n \in DOMAIN state.index :
                 IsIndex(state.index[n]) /\ state.index[n].archiver = n
           /\ state.default_archiver = state.archivers[1]
           /\ last.arg # <<>> => /\ state.archivers = <<last.arg[1].name>>
                                 /\ last.listCalls = 0
           /\ last.arg = <<>> => state.archivers = listed

C12_Witness ==
    /\ last.op = "State" /\ last.exc = "None" /\ last.arg = <<>>
    /\ state.archivers = <<"svn", "git">>
    /\ state.default_archiver = "svn"
    /\ DOMAIN state.index = {"git", "svn"}

\* C13: ensure_exists is idempotent.  cache.create is called at most once
\* over any number of calls, never when the backing location exists at the
\* call, and after every call the backing location exists; no call raises.
C13_EnsureExistsIdempotent ==
    /\ [](createCalls <= 1)
    /\ [][last'.op = "ensure_exists" =>
             /\ cacheExists'
             /\ last'.exc = "None"
             /\ cacheExists => createCalls' = createCalls
             /\ ~cacheExists => createCalls' = createCalls + 1]_vars

\* a second call after the one that created the cache
C13_Witness ==
    /\ last.op = "ensure_exists" /\ last.again
    /\ createCalls = 1 /\ cacheExists

\* the names State(config, archiver) has in scope
Scope(archiver) == IF archiver # <<>> THEN <<archiver[1].name>> ELSE listed

\* the error that resolving name and hydrating its Index raises, or "None"
FailureOf(name) ==
    IF name \notin Archivers THEN "ArchiverResolutionError" ELSE IndexInit(name).exc

\* C14: State construction is all or nothing.  If resolving any name in
\* scope, at any position, or hydrating any Index fails, construction raises
\* that error (the first one met) and yields no State object; a State that
\* is produced has an Index for every name; the persisted store is unchanged.
C14_AllOrNothing ==
    [][last'.op = "State" =>
          LET sc == Scope(last'.arg)
              failing == {i \in DOMAIN sc : FailureOf(sc[i]) # "None"}
          IN /\ persisted' = persisted /\ hasIdx' = hasIdx
             /\ failing # {} =>
                   /\ last'.exc = FailureOf(sc[CHOOSE i \in failing :
                                                  \A j \in failing : i <= j])
                   /\ state' = state
             /\ (failing = {} /\ sc # <<>>) => last'.exc = "None"
             /\ IsState(state') => DOMAIN state'.index = Range(state'.archivers)]_vars

\* the second archiver's index could not be read after the first was loaded
C14_Witness ==
    /\ last.op = "State" /\ last.exc = "CacheIOError" /\ last.arg = <<>>
    /\ listed = <<"git", "svn">>
    /\ state = NoState

\* C15: revisions and revision_keys return snapshots.  Each has, at the
\* call, the length and key order of the mapping (and its records); a
\* sequence returned earlier reads the same after a later add, of a new key
\* or of an existing one.
C15_SnapshotsNotViews ==
    [][/\ last'.op = "add" =>
             /\ Contents(held.revisions)' = Contents(held.revisions)
             /\ Contents(held.revision_keys)' = Contents(held.revision_keys)
       /\ last'.op = "revisions" =>
             LET c == Contents(held.revisions)' IN
             /\ Len(c) = len(index[Main])
             /\ \A i \in DOMAIN c :
                   /\ c[i].key = OdKeys(index[Main]._revisions)[i]
                   /\ getitem(index[Main], c[i].key) = Return(c[i])
       /\ last'.op = "revision_keys" =>
             LET c == Contents(held.revision_keys)' IN
             /\ Len(c) = len(index[Main])
             /\ \A i \in DOMAIN c : c[i] = index[Main]._revisions[i].k]_vars

\* both sequences were taken, then a key was overwritten and a key was added
C15_Witness ==
    /\ last.op = "add"
    /\ held.revisions.kind = "list" /\ held.revision_keys.kind = "list"
    /\ Len(held.revisions.v) = 1 /\ Len(held.revision_keys.v) = 1
    /\ len(index[Main]) = 2
    /\ held.revision_keys.v[1] = revision_keys(index[Main])[1]
    /\ held.revisions.v[1] # revisions(index[Main])[1]

\* C16: the cache is read once, at construction.  An Index changes only by
\* its own add, and then only at the added key: no call of its own or of
\* another process, and no change another writer makes to the persisted
\* list, alters what it loaded, its keys or its records.
C16_LoadedOnce ==
    [][\A p \in Procs :
          (IsIndex(index[p]) /\ ~(last'.op = "init" /\ last'.proc = p)) =>
              IF last'.op = "add" /\ last'.proc = p
              THEN LET old == revision_keys(index[p])
                       k == last'.arg.key
                   IN /\ index'[p].data = index[p].data
                      /\ revision_keys(index'[p]) =
                            IF k \in Range(old) THEN old ELSE Append(old, k)
                      /\ \A j \in Range(old) \ {k} :
                            getitem(index'[p], j) = getitem(index[p], j)
              ELSE index'[p] = index[p]]_vars

\* p1 went on adding after another writer stored a key p1 never loaded
C16_Witness ==
    /\ last.op = "add" /\ last.proc = "p1"
    /\ index["p1"].archiver = "git" /\ savedFrom["git"].saved
    /\ PersistedKeys(persisted["git"]) \ Range(revision_keys(index["p1"])) # {}
    /\ PersistedKeys(index["p1"].data) # PersistedKeys(persisted["git"])

\* C17: operators is fixed once the Index is constructed.  No add, save,
\* contains or getitem changes it, and an Index constructed over no
\* persisted entries keeps operators unset whatever is added and saved.
C17_OperatorsImmutable ==
    /\ [](IsIndex(index[Main]) /\ index[Main].data = <<>>
             => index[Main].operators = None)
    /\ [][(IsIndex(index[Main]) /\ last'.op # "init")
             => index'[Main].operators = index[Main].operators]_vars

C17_Witness ==
    /\ last.op = "save" /\ last.proc = Main
    /\ index[Main].data = <<>> /\ index[Main].operators = None
    /\ len(index[Main]) = 2
    /\ Len(persisted[index[Main].archiver]) = 2

\* C18: a persisted list that repeats a revision key loads without error;
\* the key is held once, at the position of its first occurrence, with the
\* field values of its last occurrence, and the length is the number of
\* distinct keys of the list.
C18_RepeatedKeyLoadsOnce ==
    last.op = "init" =>
        /\ last.exc = "None"
        /\ LET self == index[last.proc]
               fields == RevisionFields(self.data)
           IN /\ len(self) = Cardinality(Range(fields))
              /\ \A k \in Range(fields) :
                    LET occ == {i \in DOMAIN fields : fields[i] = k}
                        first == CHOOSE i \in occ : \A j \in occ : i <= j
                        final == CHOOSE i \in occ : \A j \in occ : i >= j
                        d == self.data[final]
                    IN /\ revision_keys(self)[Cardinality({fields[j] : j \in 1..first})] = k
                       /\ getitem(self, k) =
                             Return([key |-> k, author_name |-> d.author_name,
                                     author_email |-> d.author_email,
                                     date |-> d.date, message |-> d.message])

C18_Witness ==
    /\ last.op = "init" /\ last.exc = "None"
    /\ Len(index[last.proc].data) = 3 /\ len(index[last.proc]) = 2
    /\ index[last.proc].data[1].revision = index[last.proc].data[3].revision
    /\ index[last.proc].data[1].message # index[last.proc].data[3].message
    /\ revision_keys(index[last.proc])[1] = index[last.proc].data[1].revision
    /\ index[last.proc].data[2].revision # index[last.proc].data[1].revision

\* C19: in every Index state each key of the mapping maps to a record with
\* that key, revision_keys has no repeated key, and the length is the length
\* of both revisions and revision_keys.
C19_MappingWellFormed ==
    \A p \in Procs :
        IsIndex(index[p]) =>
            /\ \A k \in Range(revision_keys(index[p])) :
                  getitem(index[p], k).exc = "None" /\ getitem(index[p], k).val[1].key = k
            /\ \A i \in DOMAIN revisions(index[p]) :
                  revisions(index[p])[i].key = revision_keys(index[p])[i]
            /\ NoDup(revision_keys(index[p]))
            /\ len(index[p]) = Len(revisions(index[p]))
            /\ len(index[p]) = Len(revision_keys(index[p]))
            /\ len(index[p]) = Cardinality(Range(revision_keys(index[p])))

\* a loaded key was added again with new values and a new key was added
C19_Witness ==
    /\ last.op = "add" /\ ~addLog[Main].distinct
    /\ len(index[Main]) = 2 /\ Len(index[Main].data) = 1
    /\ getitem(index[Main], index[Main].data[1].revision).val[1].message = "msg2"

\* C20: constructing a State with no explicit archiver while the cache lists
\* no archiver fails with IndexError: no State object is yielded, no Index is
\* constructed (the cache is not asked for any index) and the store is
\* unchanged.
C20_EmptyListingFails ==
    [][(last'.op = "State" /\ last'.arg = <<>> /\ listed = <<>>) =>
          /\ last'.exc = "IndexError"
          /\ state' = state
          /\ cacheOps' = cacheOps
          /\ persisted' = persisted /\ hasIdx' = hasIdx
          /\ cacheExists' = cacheExists /\ createCalls' = createCalls]_vars

\* a State built for an explicit archiver exists; State() then failed on the
\* empty listing and left it in place
C20_Witness ==
    /\ last.op = "State" /\ last.arg = <<>> /\ last.exc = "IndexError"
    /\ listed = <<>> /\ cacheExists
    /\ IsState(state) /\ state.archivers = <<"git">>

====
